---- MODULE Spec2Model ----
(***************************************************************************)
(* A model of the Canvas widget of Paint X (src/paint_x.py): the tile      *)
(* store (get_tile / cleanup_unused_tiles / clear_canvas), the viewport    *)
(* (zoom, offset, get_visible_tiles), the pointer and wheel handlers and   *)
(* the text annotation layer.                                              *)
(*                                                                         *)
(* Numbers.  The source computes with Python floats.  The model uses fixed *)
(* point: zoom is an integer count of 1/ZoomUnit (1.0 is ZoomUnit), world  *)
(* and screen coordinates are integers, and a float division becomes an    *)
(* integer division rounded as stated at each use.  Because                *)
(* floor(floor(x)/n) = floor(x/n), the tile of a point is the tile the     *)
(* unrounded quotient would give.                                          *)
(*                                                                         *)
(* Time.  time.time() is the variable now; the action Tick lets it pass    *)
(* between any two calls, so two calls may read the same value (a coarse   *)
(* timer) or different ones.                                               *)
(*                                                                         *)
(* Handlers.  A handler that loops over tiles is a sequence of steps, one  *)
(* per get_tile call: pending holds the calls still to make, handler names *)
(* the handler that is running, and no other handler starts before the     *)
(* running one has finished (the program is single-threaded).              *)
(***************************************************************************)
EXTENDS Integers, Sequences, FiniteSets, TLC

VARIABLES
    tiles,              \* self.tiles: key -> [gen, dirty, painted]
    tile_access_times,  \* self.tile_access_times, in dict order: <<key, time>>
    cleanup_counter,    \* self.cleanup_counter
    zoom,               \* self.zoom, in 1/ZoomUnit
    offset,             \* self.offset, <<x, y>>
    tool,               \* self.tool
    drawing,            \* self.drawing
    last_point,         \* self.last_point (None or <<x, y>>)
    start_point,        \* self.start_point (None until the first press)
    items,              \* the TextItem objects, by identity: id -> fields
    text_items,         \* self.text_items, in dict order: <<key, <<ids>>>>
    selected_text,      \* self.selected_text (NoText or an id)
    rotating,           \* self.rotating
    scaling,            \* self.scaling
    capture,            \* what a press on a handle captures (rotation_start, ...)
    now,                \* the value time.time() returns
    handler,            \* the handler that is running, or "idle"
    pending,            \* the calls the running handler has still to make
    arg,                \* the running handler's event position
    ret,                \* the call that returned last (see Ret)
    created,            \* history: how many tiles each key has been bound to
    accessed,           \* history: now at the last get_tile of each stored key
    events,             \* history: how many events the user has sent
    wheels,             \* history: how many Ctrl+wheel events there were
    repeat,             \* the wheel direction and cursor the user now repeats
    old_view            \* history: zoom and offset before the last wheel event

vars == <<tiles, tile_access_times, cleanup_counter, zoom, offset, tool,
          drawing, last_point, start_point, items, text_items, selected_text,
          rotating, scaling, capture, now, handler, pending, arg, ret, created,
          accessed, events, wheels, repeat, old_view>>

storeVars == <<tiles, tile_access_times, cleanup_counter, created, accessed>>
viewVars == <<zoom, offset, wheels, repeat, old_view>>
penVars == <<drawing, last_point, start_point>>
textVars == <<items, text_items, selected_text, rotating, scaling, capture>>

\* Python's None where a point or a key may stand, and where a TextItem may.
None == << >>
NoText == 0

----------------------------------------------------------------------------
(* Sizes.  The source runs with tile_size 256, base_tile_limit 500 and     *)
(* cleanup_threshold 25 on a widget of several hundred pixels; the model   *)
(* keeps tile_size and the zoom limits and instantiates the capacity, the  *)
(* threshold and the widget with small values, so that a store over        *)
(* capacity is a few tiles and not a few hundred.                          *)

tile_size == 256
ZoomUnit == 100
min_zoom == ZoomUnit \div 20
max_zoom == 10 * ZoomUnit

base_tile_limit == 4
cleanup_threshold == 3
WidgetWidth == 10
WidgetHeight == 10

MaxClock == 1
MaxGen == 2
MaxWheel == 1
MaxEvents == 3
MaxFreeWheel == 4

Min(a, b) == IF a < b THEN a ELSE b
Max(a, b) == IF a > b THEN a ELSE b

----------------------------------------------------------------------------
(* Python dicts whose order matters, as sequences of <<key, value>>.       *)

DictKeys(d) == {d[i][1] : i \in DOMAIN d}

DictGet(d, key) == LET i == CHOOSE j \in DOMAIN d : d[j][1] = key IN d[i][2]

\* d[key] = value: an existing key keeps its place, a new one goes last.
DictSet(d, key, value) ==
    IF key \in DictKeys(d)
    THEN [i \in DOMAIN d |-> IF d[i][1] = key THEN <<key, value>> ELSE d[i]]
    ELSE Append(d, <<key, value>>)

\* d.pop(key, None)
DictPop(d, key) == SelectSeq(d, LAMBDA e : e[1] # key)

\* tiles.pop(key, None)
TilesPop(T, key) == [k \in (DOMAIN T) \ {key} |-> T[k]]

----------------------------------------------------------------------------
(* Canvas.get_max_tiles_for_zoom: int() truncates.                         *)

\* The tiers with their lower limits taken in: <= 0.1 and <= 0.5.
get_max_tiles_inclusive(z) ==
    IF z * 10 <= ZoomUnit THEN (base_tile_limit * 3) \div 10
    ELSE IF z * 2 <= ZoomUnit THEN (base_tile_limit * 6) \div 10
    ELSE IF z > 5 * ZoomUnit THEN (base_tile_limit * 15) \div 10
    ELSE base_tile_limit

get_max_tiles_for_zoom(z) ==
    IF z * 10 < ZoomUnit THEN (base_tile_limit * 3) \div 10
    ELSE IF z * 2 < ZoomUnit THEN (base_tile_limit * 6) \div 10
    ELSE IF z > 5 * ZoomUnit THEN (base_tile_limit * 15) \div 10
    ELSE base_tile_limit

(* Canvas.get_visible_tiles: the rectangle (-offset, size / zoom), each    *)
(* edge floor-divided by tile_size, one tile added all round; the list is  *)
(* in the comprehension's order, tx outermost.                             *)

RectKeys(min_tx, max_tx, min_ty, max_ty) ==
    LET ny == max_ty - min_ty + 1
        nx == max_tx - min_tx + 1
    IN  IF nx <= 0 \/ ny <= 0 THEN <<>>
        ELSE [i \in 1..(nx * ny) |->
                <<min_tx + ((i - 1) \div ny), min_ty + ((i - 1) % ny)>>]

\* get_visible_tiles with the rectangle at (0, 0) instead of -offset.
get_visible_tiles_unpanned(z, off) ==
    LET left == 0
        top == 0
        right == left + ((WidgetWidth * ZoomUnit) \div z)
        bottom == top + ((WidgetHeight * ZoomUnit) \div z)
    IN  RectKeys((left \div tile_size) - 1, (right \div tile_size) + 1,
                 (top \div tile_size) - 1, (bottom \div tile_size) + 1)

get_visible_tiles(z, off) ==
    LET left == 0 - off[1]
        top == 0 - off[2]
        right == left + ((WidgetWidth * ZoomUnit) \div z)
        bottom == top + ((WidgetHeight * ZoomUnit) \div z)
    IN  RectKeys((left \div tile_size) - 1, (right \div tile_size) + 1,
                 (top \div tile_size) - 1, (bottom \div tile_size) + 1)

SeqSet(s) == {s[i] : i \in DOMAIN s}

Visible == SeqSet(get_visible_tiles(zoom, offset))

----------------------------------------------------------------------------
(* Canvas.cleanup_unused_tiles.                                            *)

\* sorted(..., key=time) is stable: equal times keep the dict's order.
InsertByTime(s, e) ==
    LET n == Cardinality({i \in DOMAIN s : s[i][2] <= e[2]})
    IN  SubSeq(s, 1, n) \o <<e>> \o SubSeq(s, n + 1, Len(s))

RECURSIVE SortedByTime(_)
SortedByTime(d) ==
    IF d = <<>> THEN <<>>
    ELSE InsertByTime(SortedByTime(SubSeq(d, 1, Len(d) - 1)), d[Len(d)])

\* The for loop over sorted_tiles: st is [tiles, times].
EvictStepBroken(st, key, max, visible) ==
    [tiles |-> TilesPop(st.tiles, key), times |-> DictPop(st.times, key)]

EvictStep(st, key, max, visible) ==
    IF key \notin visible
    THEN [tiles |-> TilesPop(st.tiles, key), times |-> DictPop(st.times, key)]
    ELSE st

RECURSIVE CleanupLoop(_, _, _, _)
CleanupLoop(sorted, st, max, visible) ==
    IF sorted = <<>> THEN st
    ELSE IF Cardinality(DOMAIN st.tiles) <= max THEN st
    ELSE CleanupLoop(Tail(sorted), EvictStep(st, sorted[1][1], max, visible),
                     max, visible)

cleanup_unused_tiles(T, A, z, off) ==
    LET max == get_max_tiles_for_zoom(z)
    IN  IF Cardinality(DOMAIN T) <= max
        THEN [tiles |-> T, times |-> A]
        ELSE CleanupLoop(SortedByTime(A), [tiles |-> T, times |-> A], max,
                         SeqSet(get_visible_tiles(z, off)))

----------------------------------------------------------------------------
(* Canvas.get_tile, one call per step.  A call that creates the N-th tile  *)
(* since the last pass runs cleanup_unused_tiles first: the state in which *)
(* that pass has returned is a state of its own (the head of pending is    *)
(* then the "resume" of the same call), and the next step resets the       *)
(* counter and stores the new tile.                                        *)

\* The call that has just returned: its name, the key it was made for (for an
\* event handler, the event's position), what it did ("hit", "created", "in",
\* "out") and the keys it removed from tiles.
Ret(call, key, info, evicted) ==
    [call |-> call, key |-> key, info |-> info, evicted |-> evicted]

Called(call) == Ret(call, None, "", {})

Op(op, key, mark) == [op |-> op, key |-> key, mark |-> mark]

Count(f, key) == IF key \in DOMAIN f THEN f[key] ELSE 0

\* CanvasTile(tile_size): a blank tile, dirty False; gen tells the objects
\* bound to one key apart.
CanvasTile(key) == [gen |-> Count(created, key) + 1, dirty |-> FALSE,
                    painted |-> FALSE]

\* What the caller does with the tile get_tile returned.
Marked(t, mark) ==
    CASE mark = "dirty" -> [t EXCEPT !.dirty = TRUE, !.painted = TRUE]
      [] mark = "image" -> [t EXCEPT !.painted = TRUE]
      [] OTHER -> t

Restrict(f, S) == [k \in (DOMAIN f) \cap S |-> f[k]]

\* The handler's last lines, run by the step that empties pending.
Finish(rest) ==
    /\ pending' = rest
    /\ IF rest # <<>>
       THEN /\ handler' = handler
            /\ UNCHANGED <<penVars, arg>>
       ELSE /\ handler' = "idle"
            /\ arg' = None
            /\ CASE handler = "mouseMoveEvent" ->
                      /\ last_point' = arg
                      /\ UNCHANGED <<drawing, start_point>>
                 [] handler = "mouseReleaseEvent" ->
                      /\ drawing' = FALSE
                      /\ last_point' = None
                      /\ UNCHANGED start_point
                 [] OTHER -> UNCHANGED penVars

StoreTile(T, key, mark) == (key :> Marked(CanvasTile(key), mark)) @@ T

RecordTime(A, key, t) == DictSet(A, key, t)

\* get_tile without its "if key not in self.tiles".
GetTileHitRebinds(key, mark) ==
    /\ key \in DOMAIN tiles
    /\ tile_access_times' = RecordTime(tile_access_times, key, now)
    /\ tiles' = [tiles EXCEPT ![key] =
                    Marked([CanvasTile(key) EXCEPT !.gen = 0], mark)]
    /\ accessed' = (key :> now) @@ accessed
    /\ ret' = Ret("get_tile", key, "hit", {})
    /\ UNCHANGED <<cleanup_counter, created>>
    /\ Finish(Tail(pending))

GetTileHit(key, mark) ==
    /\ key \in DOMAIN tiles
    /\ tile_access_times' = RecordTime(tile_access_times, key, now)
    /\ tiles' = [tiles EXCEPT ![key] = Marked(@, mark)]
    /\ accessed' = (key :> now) @@ accessed
    /\ ret' = Ret("get_tile", key, "hit", {})
    /\ UNCHANGED <<cleanup_counter, created>>
    /\ Finish(Tail(pending))

GetTileCreate(key, mark) ==
    /\ key \notin DOMAIN tiles
    /\ cleanup_counter + 1 < cleanup_threshold
    /\ Count(created, key) < MaxGen
    /\ tile_access_times' = RecordTime(tile_access_times, key, now)
    /\ cleanup_counter' = cleanup_counter + 1
    /\ tiles' = StoreTile(tiles, key, mark)
    /\ created' = (key :> Count(created, key) + 1) @@ created
    /\ accessed' = (key :> now) @@ accessed
    /\ ret' = Ret("get_tile", key, "created", {})
    /\ Finish(Tail(pending))

GetTileCleanup(key, mark) ==
    /\ key \notin DOMAIN tiles
    /\ cleanup_counter + 1 >= cleanup_threshold
    /\ Count(created, key) < MaxGen
    /\ LET st == cleanup_unused_tiles(
                     tiles, RecordTime(tile_access_times, key, now),
                     zoom, offset)
       IN  /\ tiles' = st.tiles
           /\ tile_access_times' = st.times
           /\ accessed' = (key :> now) @@ Restrict(accessed, DOMAIN st.tiles)
    /\ cleanup_counter' = cleanup_counter + 1
    /\ ret' = Ret("cleanup_unused_tiles", key, "get_tile",
                  (DOMAIN tiles) \ (DOMAIN tiles'))
    /\ pending' = <<Op("resume", key, mark)>> \o Tail(pending)
    /\ UNCHANGED <<created, handler, penVars, arg>>

\* get_tile without its "self.cleanup_counter = 0".
GetTileResumeKeepsCount(key, mark) ==
    /\ cleanup_counter' = cleanup_counter
    /\ tiles' = StoreTile(tiles, key, mark)
    /\ created' = (key :> Count(created, key) + 1) @@ created
    /\ ret' = Ret("get_tile", key, "created", {})
    /\ UNCHANGED <<tile_access_times, accessed>>
    /\ Finish(Tail(pending))

GetTileResume(key, mark) ==
    /\ cleanup_counter' = 0
    /\ tiles' = StoreTile(tiles, key, mark)
    /\ created' = (key :> Count(created, key) + 1) @@ created
    /\ ret' = Ret("get_tile", key, "created", {})
    /\ UNCHANGED <<tile_access_times, accessed>>
    /\ Finish(Tail(pending))

\* load_image's own pass after each chunk.
CleanupCall ==
    /\ LET st == cleanup_unused_tiles(tiles, tile_access_times, zoom, offset)
       IN  /\ tiles' = st.tiles
           /\ tile_access_times' = st.times
           /\ accessed' = Restrict(accessed, DOMAIN st.tiles)
    /\ ret' = Ret("cleanup_unused_tiles", None, "load_image",
                  (DOMAIN tiles) \ (DOMAIN tiles'))
    /\ UNCHANGED <<cleanup_counter, created>>
    /\ Finish(Tail(pending))

Step ==
    /\ handler # "idle"
    /\ pending # <<>>
    /\ LET o == Head(pending)
       IN  \/ o.op = "get" /\ GetTileHit(o.key, o.mark)
           \/ o.op = "get" /\ GetTileCreate(o.key, o.mark)
           \/ o.op = "get" /\ GetTileCleanup(o.key, o.mark)
           \/ o.op = "resume" /\ GetTileResume(o.key, o.mark)
           \/ o.op = "cleanup" /\ CleanupCall
    /\ UNCHANGED <<viewVars, tool, textVars, now, events>>

\* Time passes.
Tick ==
    /\ now < MaxClock
    /\ now' = now + 1
    /\ UNCHANGED <<storeVars, viewVars, tool, penVars, textVars, handler,
                   pending, arg, ret, events>>

Gets(keys, mark) == [i \in DOMAIN keys |-> Op("get", keys[i], mark)]

\* Starts a handler that has calls to make.
Begin(name, ops, a) ==
    /\ handler' = name
    /\ pending' = ops
    /\ arg' = a

----------------------------------------------------------------------------
(* Canvas.paintEvent: get_tile for every visible tile, in list order.      *)

paintEvent ==
    /\ handler = "idle"
    /\ Begin("paintEvent", Gets(get_visible_tiles(zoom, offset), "none"), None)
    /\ ret' = Called("none")
    /\ UNCHANGED <<storeVars, viewVars, tool, penVars, textVars, now>>

(* Canvas.clear_canvas                                                     *)

clear_canvas ==
    /\ handler = "idle"
    /\ tiles' = << >>
    /\ accessed' = << >>
    /\ ret' = Called("clear_canvas")
    /\ UNCHANGED <<tile_access_times, cleanup_counter, created, viewVars, tool,
                   penVars, textVars, now, handler, pending, arg>>

(* Canvas.save_image.  saved: what QImage.save returns, True when the file  *)
(* was written.  The returned call's key is the size in pixels of the      *)
(* image handed to QImage.save, None when save was not reached.            *)

SetMin(S) == CHOOSE x \in S : \A y \in S : x <= y
SetMax(S) == CHOOSE x \in S : \A y \in S : x >= y

ResultSize(K) ==
    LET xs == {k[1] : k \in K}
        ys == {k[2] : k \in K}
    IN  <<(SetMax(xs) - SetMin(xs) + 1) * tile_size,
          (SetMax(ys) - SetMin(ys) + 1) * tile_size>>

\* save_image without its "if not self.tiles: return False": min() of an
\* empty sequence raises ValueError.
save_image_unguarded(saved) ==
    /\ handler = "idle"
    /\ ret' = IF DOMAIN tiles = {}
              THEN Ret("save_image", None, "raised", {})
              ELSE Ret("save_image", ResultSize(DOMAIN tiles),
                       IF saved THEN "True" ELSE "False", {})
    /\ UNCHANGED <<storeVars, viewVars, tool, penVars, textVars, now, handler,
                   pending, arg>>

\* save_image reading each stored tile through get_tile, which writes the
\* key's timestamp.
save_image_by_get_tile(saved) ==
    /\ handler = "idle"
    /\ ret' = IF DOMAIN tiles = {}
              THEN Ret("save_image", None, "False", {})
              ELSE Ret("save_image", ResultSize(DOMAIN tiles),
                       IF saved THEN "True" ELSE "False", {})
    /\ tile_access_times' =
           [i \in DOMAIN tile_access_times |->
               IF tile_access_times[i][1] \in DOMAIN tiles
               THEN <<tile_access_times[i][1], now>>
               ELSE tile_access_times[i]]
    /\ UNCHANGED <<tiles, cleanup_counter, created, accessed, viewVars, tool,
                   penVars, textVars, now, handler, pending, arg>>

save_image(saved) ==
    /\ handler = "idle"
    /\ ret' = IF DOMAIN tiles = {}
              THEN Ret("save_image", None, "False", {})
              ELSE Ret("save_image", ResultSize(DOMAIN tiles),
                       IF saved THEN "True" ELSE "False", {})
    /\ UNCHANGED <<storeVars, viewVars, tool, penVars, textVars, now, handler,
                   pending, arg>>

(* PaintX.set_tool                                                         *)

Tools == {"select", "pen", "brush", "rectangle", "circle", "line", "eraser",
          "text"}

set_tool(t) ==
    /\ handler = "idle"
    /\ t # tool
    /\ tool' = t
    /\ ret' = Called("none")
    /\ UNCHANGED <<storeVars, viewVars, penVars, textVars, now, handler,
                   pending, arg>>

----------------------------------------------------------------------------
(* Canvas.map_to_image and Canvas.point_to_tile.  pos / zoom is rounded    *)
(* down to a whole world unit.                                             *)

Over(a, z) == (a * ZoomUnit) \div z

\* map_to_image with the offset added, as paintEvent's translate adds it.
map_to_image_added(p, z, off) ==
    <<Over(p[1], z) + off[1], Over(p[2], z) + off[2]>>

map_to_image(p, z, off) == <<Over(p[1], z) - off[1], Over(p[2], z) - off[2]>>

TileOf(pt) == <<pt[1] \div tile_size, pt[2] \div tile_size>>

\* bool(QPointF) is not isNull(): None and the point (0, 0) are false.
Truthy(pt) == pt # None /\ pt # <<0, 0>>

----------------------------------------------------------------------------
(* Canvas.wheelEvent with the Control modifier (without it the event goes  *)
(* to QWidget.wheelEvent, which changes nothing here).  zoom * 1.2 and     *)
(* zoom * (1 / 1.2) are rounded to the nearest 1/ZoomUnit.                 *)

\* Zooming out by 1 - 0.2 instead of 1 / 1.2.
ScaledUneven(z, dir) ==
    IF dir = "in" THEN (z * 12 + 5) \div 10 ELSE (z * 8 + 5) \div 10

Scaled(z, dir) ==
    IF dir = "in" THEN (z * 12 + 5) \div 10 ELSE (z * 10 + 6) \div 12

ClampedUnbounded(z) == Max(min_zoom, z)

ClampedBelowOnly(z) == Min(max_zoom, z)

Clamped(z) == Max(min_zoom, Min(max_zoom, z))

wheelEvent(dir, p) ==
    /\ handler = "idle"
    /\ zoom' = Clamped(Scaled(zoom, dir))
    /\ offset' = IF zoom' # zoom
                 THEN <<Over(p[1], zoom') - Over(p[1], zoom) + offset[1],
                        Over(p[2], zoom') - Over(p[2], zoom) + offset[2]>>
                 ELSE offset
    /\ items' = IF selected_text # NoText
                THEN [items EXCEPT ![selected_text].show_controls = FALSE]
                ELSE items
    /\ old_view' = [zoom |-> zoom, offset |-> offset]
    /\ ret' = Ret("wheelEvent", p, dir, {})
    /\ UNCHANGED <<storeVars, tool, penVars, text_items, selected_text,
                   rotating, scaling, capture, now, handler, pending, arg>>

----------------------------------------------------------------------------
(* The text layer.  Nothing in the source assigns TextItem.rotation or     *)
(* TextItem.scale after __init__ (mouseMoveEvent handles no text gesture), *)
(* so get_text_bounds is the unrotated rectangle about the anchor.         *)

TextWidth == 40
TextHeight == 16

TextItem(pos) == [pos |-> pos, scale |-> 1, rotation |-> 0,
                  selected |-> FALSE, dragging |-> FALSE, drag_start |-> None,
                  original_pos |-> None, show_controls |-> FALSE]

get_text_bounds(it) ==
    LET w == TextWidth * it.scale
        h == TextHeight * it.scale
    IN  [min_x |-> it.pos[1] - (w \div 2), max_x |-> it.pos[1] + (w \div 2),
         min_y |-> it.pos[2] - (h \div 2), max_y |-> it.pos[2] + (h \div 2)]

\* <<rotation handle, scale handle>>
get_text_handles(it, z) ==
    LET b == get_text_bounds(it)
    IN  <<(<<it.pos[1], b.min_y - Over(30, z)>>), (<<b.max_x, b.max_y>>)>>

is_point_in_text(pt, it) ==
    LET b == get_text_bounds(it)
    IN  /\ b.min_x <= pt[1] /\ pt[1] < b.max_x
        /\ b.min_y <= pt[2] /\ pt[2] < b.max_y

Abs(a) == IF a < 0 THEN 0 - a ELSE a

\* Cursor positions of wheel events in SpecWheel.
CursorPoints == {<<0, 0>>, <<10, 10>>, <<3, 7>>}

\* manhattanLength() < threshold / zoom, threshold 15
is_near_point(p1, p2, z) ==
    (Abs(p1[1] - p2[1]) + Abs(p1[2] - p2[2])) * z < 15 * ZoomUnit

\* The items in the order mousePressEvent's two loops visit them.
RECURSIVE Reversed(_)
Reversed(s) == IF s = <<>> THEN <<>> ELSE Append(Reversed(Tail(s)), Head(s))

RECURSIVE HitOrder(_)
HitOrder(d) ==
    IF d = <<>> THEN <<>> ELSE Reversed(d[1][2]) \o HitOrder(Tail(d))

ClickedText(pt) ==
    LET hits == SelectSeq(HitOrder(text_items),
                          LAMBDA i : is_point_in_text(pt, items[i]))
    IN  IF hits = <<>> THEN NoText ELSE hits[1]

NoCapture == [rotation_start |-> None, initial_rotation |-> None,
              scale_start |-> None, scale_origin |-> None,
              start_scale |-> None, start_dist |-> None]

MaxTexts == 2

\* Canvas.add_text
add_text(pos) ==
    LET id == Cardinality(DOMAIN items) + 1
        key == TileOf(pos)
        old == IF key \in DictKeys(text_items) THEN DictGet(text_items, key)
               ELSE <<>>
    IN  /\ id <= MaxTexts
        /\ items' = (id :> [TextItem(pos) EXCEPT !.selected = TRUE]) @@ items
        /\ text_items' = DictSet(text_items, key, Append(old, id))
        /\ selected_text' = id

----------------------------------------------------------------------------
(* Canvas.mousePressEvent, left button.  accept: both dialogs were         *)
(* accepted with a non-empty text.                                         *)

PressOnSelected(pos) ==
    LET it == items[selected_text]
        h == get_text_handles(it, zoom)
    IN  IF is_near_point(pos, h[1], zoom)
        THEN /\ rotating' = TRUE
             \* atan2's arguments stand for the angle
             /\ capture' = [capture EXCEPT
                    !.rotation_start = <<pos[2] - it.pos[2], pos[1] - it.pos[1]>>,
                    !.initial_rotation = it.rotation]
             /\ UNCHANGED <<items, scaling>>
        ELSE IF is_near_point(pos, h[2], zoom)
        THEN /\ scaling' = TRUE
             \* the distance's two legs stand for start_dist
             /\ capture' = [capture EXCEPT
                    !.scale_start = pos,
                    !.scale_origin = it.pos,
                    !.start_scale = it.scale,
                    !.start_dist = <<pos[1] - it.pos[1], pos[2] - it.pos[2]>>]
             /\ UNCHANGED <<items, rotating>>
        ELSE /\ items' = [items EXCEPT ![selected_text].dragging = TRUE,
                                       ![selected_text].drag_start = pos,
                                       ![selected_text].original_pos = it.pos]
             /\ UNCHANGED <<rotating, scaling, capture>>

\* "if self.selected_text:" without its "selected = False".
DeselectedKeepsFlag ==
    IF selected_text # NoText
    THEN [items EXCEPT ![selected_text].show_controls = FALSE]
    ELSE items

\* The items after "if self.selected_text:" of the drawing tools' branch.
Deselected ==
    IF selected_text # NoText
    THEN [items EXCEPT ![selected_text].selected = FALSE,
                       ![selected_text].show_controls = FALSE]
    ELSE items

mousePressEvent(p, accept) ==
    LET pos == map_to_image(p, zoom, offset)
    IN  /\ handler = "idle"
        /\ IF tool \in {"text", "select"}
           THEN /\ UNCHANGED penVars
                /\ IF selected_text # NoText
                   THEN /\ PressOnSelected(pos)
                        /\ UNCHANGED <<text_items, selected_text>>
                   ELSE LET clicked == ClickedText(pos)
                        IN  IF clicked # NoText
                            THEN /\ selected_text' = clicked
                                 /\ items' = [items EXCEPT
                                        ![clicked].selected = TRUE,
                                        ![clicked].show_controls = TRUE]
                                 /\ UNCHANGED <<text_items, rotating, scaling,
                                                capture>>
                            ELSE IF tool = "text" /\ accept
                            THEN /\ add_text(pos)
                                 /\ UNCHANGED <<rotating, scaling, capture>>
                            ELSE UNCHANGED textVars
           ELSE /\ items' = Deselected
                /\ selected_text' = NoText
                /\ drawing' = TRUE
                /\ last_point' = pos
                /\ start_point' = pos
                /\ UNCHANGED <<text_items, rotating, scaling, capture>>
        /\ ret' = Ret("mousePressEvent", pos,
                      IF accept THEN "accepted" ELSE "", {})
        /\ UNCHANGED <<storeVars, viewVars, tool, now, handler, pending, arg>>

----------------------------------------------------------------------------
(* Canvas.draw_line_between_points: get_tile for every tile of the         *)
(* rectangle spanned by the two end tiles, widened by one tile, and        *)
(* tile.dirty = True for each.                                             *)

\* The point draw_line_between_points draws for the world point end in the
\* pixmap of tile key: end - (tx * tile_size - 1).
tile_end(end, key) ==
    <<end[1] - (key[1] * tile_size - 1), end[2] - (key[2] * tile_size - 1)>>

\* The point mouseReleaseEvent's shape commit draws for the world point pos
\* in the pixmap of tile key: pos - tx * tile_size.
local_end(pos, key) ==
    <<pos[1] - key[1] * tile_size, pos[2] - key[2] * tile_size>>

draw_line_between_points(start, end) ==
    LET a == TileOf(start)
        b == TileOf(end)
    IN  Gets(RectKeys(Min(a[1], b[1]) - 1, Max(a[1], b[1]) + 1,
                      Min(a[2], b[2]) - 1, Max(a[2], b[2]) + 1), "dirty")

(* Canvas.mouseMoveEvent.  The pan branch needs pan_start, which nothing   *)
(* sets, so it never runs; without drawing and a true last_point the       *)
(* handler changes nothing, whatever the text layer's state is.            *)

mouseMoveEvent(p) ==
    LET pos == map_to_image(p, zoom, offset)
    IN  /\ handler = "idle"
        /\ IF drawing /\ Truthy(last_point)
           THEN IF tool \in {"pen", "brush", "eraser"}
                THEN /\ Begin("mouseMoveEvent",
                              draw_line_between_points(last_point, pos), pos)
                     /\ UNCHANGED penVars
                ELSE /\ last_point' = pos
                     /\ UNCHANGED <<drawing, start_point, handler, pending,
                                    arg>>
           ELSE UNCHANGED <<penVars, handler, pending, arg>>
        /\ ret' = Ret("mouseMoveEvent", pos, "", {})
        /\ UNCHANGED <<storeVars, viewVars, tool, textVars, now>>

(* Canvas.mouseReleaseEvent, left button.                                  *)

ShapeCommit(pos) ==
    Gets(RectKeys((Min(start_point[1], pos[1]) \div tile_size) - 1,
                  (Max(start_point[1], pos[1]) \div tile_size) + 1,
                  (Min(start_point[2], pos[2]) \div tile_size) - 1,
                  (Max(start_point[2], pos[2]) \div tile_size) + 1), "dirty")

mouseReleaseEvent(p) ==
    LET pos == map_to_image(p, zoom, offset)
    IN  /\ handler = "idle"
        /\ IF selected_text # NoText
           THEN /\ LET it == items[selected_text]
                   IN  /\ items' = [items EXCEPT
                              ![selected_text].dragging = FALSE,
                              ![selected_text].show_controls = TRUE]
                       /\ rotating' = IF it.dragging THEN rotating ELSE FALSE
                       /\ scaling' = IF it.dragging \/ rotating THEN scaling
                                     ELSE FALSE
                /\ UNCHANGED <<text_items, selected_text, capture, penVars,
                               handler, pending, arg>>
           ELSE IF drawing
           THEN /\ IF tool \in {"rectangle", "circle", "line"}
                   THEN /\ Begin("mouseReleaseEvent", ShapeCommit(pos), pos)
                        /\ UNCHANGED penVars
                   ELSE /\ drawing' = FALSE
                        /\ last_point' = None
                        /\ UNCHANGED <<start_point, handler, pending, arg>>
                /\ UNCHANGED textVars
           ELSE UNCHANGED <<textVars, penVars, handler, pending, arg>>
        /\ ret' = Called("mouseReleaseEvent")
        /\ UNCHANGED <<storeVars, viewVars, tool, now>>

----------------------------------------------------------------------------
(* Canvas.load_image of a w x h image: clear_canvas, then chunks of        *)
(* chunk_size x chunk_size tiles, get_tile and drawImage for each tile of  *)
(* a chunk and an eviction pass after each chunk.                          *)

chunk_size == 10

CeilDiv(a, b) == (a + b - 1) \div b

ChunkOps(tx_chunk, ty_chunk, tiles_x, tiles_y) ==
    Gets(RectKeys(tx_chunk, Min(tx_chunk + chunk_size, tiles_x) - 1,
                  ty_chunk, Min(ty_chunk + chunk_size, tiles_y) - 1), "image")
    \o <<Op("cleanup", None, "none")>>

RECURSIVE LoadOps(_, _, _)
\* the chunks from number c on, in the two loops' order (ty_chunk inner)
LoadOps(c, tiles_x, tiles_y) ==
    LET cy == CeilDiv(tiles_y, chunk_size)
        cx == CeilDiv(tiles_x, chunk_size)
    IN  IF c >= cx * cy THEN <<>>
        ELSE ChunkOps((c \div cy) * chunk_size, (c % cy) * chunk_size,
                      tiles_x, tiles_y)
             \o LoadOps(c + 1, tiles_x, tiles_y)

load_image(w, h) ==
    /\ handler = "idle"
    /\ tiles' = << >>
    /\ accessed' = << >>
    /\ Begin("load_image",
             LoadOps(0, CeilDiv(w, tile_size), CeilDiv(h, tile_size)),
             <<w, h>>)
    /\ ret' = Called("clear_canvas")
    /\ UNCHANGED <<tile_access_times, cleanup_counter, created, viewVars, tool,
                   penVars, textVars, now>>

----------------------------------------------------------------------------
(* The state after Canvas.__init__ (init_canvas), with zoom z.             *)

Constructed(z) ==
    /\ tiles = << >>
    /\ tile_access_times = << >>
    /\ cleanup_counter = 0
    /\ zoom = z
    /\ offset = <<0, 0>>
    /\ tool = "pen"
    /\ drawing = FALSE
    /\ last_point = None
    /\ start_point = None
    /\ items = << >>
    /\ text_items = << >>
    /\ selected_text = NoText
    /\ rotating = FALSE
    /\ scaling = FALSE
    /\ capture = NoCapture
    /\ now = 0
    /\ handler = "idle"
    /\ pending = << >>
    /\ arg = None
    /\ ret = Called("none")
    /\ created = << >>
    /\ accessed = << >>
    /\ events = 0
    /\ wheels = 0
    /\ repeat = [dir |-> "none", pos |-> None]
    /\ old_view = [zoom |-> z, offset |-> <<0, 0>>]

\* The zoom after n Ctrl+wheel events in one direction.
RECURSIVE Ticks(_, _, _)
Ticks(z, dir, n) ==
    IF n = 0 THEN z ELSE Ticks(Clamped(Scaled(z, dir)), dir, n - 1)

\* One more event from the user.
Event(A) ==
    /\ events < MaxEvents
    /\ A
    /\ events' = events + 1

----------------------------------------------------------------------------
(* Spec: the tile store under painting, drawing, loading, clearing and     *)
(* zooming.  A wheel event with the cursor at the widget's origin changes  *)
(* zoom and nothing else, so the store is entered at 1.0 and at the zooms  *)
(* that 4 and 13 events out and 9 events in lead to, one on each side of   *)
(* every capacity tier; the wheel events of a run then cross the tiers.    *)

ZoomStarts == {ZoomUnit, Ticks(ZoomUnit, "out", 4), Ticks(ZoomUnit, "out", 13),
               Ticks(ZoomUnit, "in", 9)}

Init == \E z \in ZoomStarts : Constructed(z)

\* Pointer positions: inside the widget, and beyond its right edge (a drag
\* that leaves the widget keeps delivering move events).  The handlers map a
\* position with map_to_image and never compare it with the widget's size.
ScreenPoints == {<<5, 5>>, <<60, 5>>}

\* Cursor positions of wheel events.
WheelPoints == {<<0, 0>>}

\* Image sizes handed to load_image.
ImageSizes == {<<700, 10>>}

DrawTools == {"pen", "line"}

Wheel ==
    /\ wheels < MaxWheel
    /\ \E dir \in {"in", "out"}, p \in WheelPoints : wheelEvent(dir, p)
    /\ wheels' = wheels + 1
    /\ UNCHANGED repeat

Paint == Event(paintEvent)
Clear == Event(clear_canvas)
SetTool == \E t \in DrawTools : Event(set_tool(t))
Press == \E p \in ScreenPoints : Event(mousePressEvent(p, FALSE))
Move == \E p \in ScreenPoints : Event(mouseMoveEvent(p))
Release == \E p \in ScreenPoints : Event(mouseReleaseEvent(p))
Load == \E im \in ImageSizes : Event(load_image(im[1], im[2]))
Zoom == Event(Wheel)

Next ==
    \/ Step
    \/ Tick
    \/ Paint
    \/ Clear
    \/ SetTool
    \/ Press
    \/ Move
    \/ Release
    \/ Load
    \/ Zoom

Spec == Init /\ [][Next]_vars

----------------------------------------------------------------------------
(* SpecText: the text layer under the text and select tools, clearing and  *)
(* zooming.                                                                *)

TextTools == {"text", "select", "pen"}

\* On an item placed at <<100, 100>> at zoom 1.0: its anchor, its rotation
\* handle, its scale handle; and a point off every item.  The text handlers
\* read zoom and offset, never the widget's size.
TextPoints == {<<100, 100>>, <<100, 62>>, <<120, 108>>, <<150, 120>>}

MaxTextEvents == 6

\* One more event from the user.
TextEvent(A) ==
    /\ events < MaxTextEvents
    /\ A
    /\ events' = events + 1

TextClear == TextEvent(clear_canvas)
TextSetTool == \E t \in TextTools : TextEvent(set_tool(t))
TextPress ==
    \E p \in TextPoints, accept \in BOOLEAN :
        TextEvent(mousePressEvent(p, accept))
TextMove == \E p \in TextPoints : TextEvent(mouseMoveEvent(p))
TextRelease == \E p \in TextPoints : TextEvent(mouseReleaseEvent(p))
TextZoom == TextEvent(Wheel)

NextText ==
    \/ TextClear
    \/ TextSetTool
    \/ TextPress
    \/ TextMove
    \/ TextRelease
    \/ TextZoom

InitText == Constructed(ZoomUnit)

SpecText == InitText /\ [][NextText]_vars

----------------------------------------------------------------------------
(* SpecWheel: Ctrl+wheel events alone.  After some events in either        *)
(* direction the user settles on one direction and one cursor position and *)
(* keeps turning the wheel; WF says that the turning goes on.              *)

FreeWheel ==
    /\ repeat.dir = "none"
    /\ wheels < MaxFreeWheel
    /\ \E dir \in {"in", "out"}, p \in CursorPoints : wheelEvent(dir, p)
    /\ wheels' = wheels + 1
    /\ UNCHANGED <<repeat, events>>

StartRepeat ==
    /\ repeat.dir = "none"
    /\ \E dir \in {"in", "out"}, p \in CursorPoints :
          repeat' = [dir |-> dir, pos |-> p]
    /\ UNCHANGED <<storeVars, zoom, offset, wheels, old_view, tool, penVars,
                   textVars,
                   now, handler, pending, arg, ret, events>>

RepeatWheel ==
    /\ repeat.dir # "none"
    /\ wheelEvent(repeat.dir, repeat.pos)
    /\ UNCHANGED <<repeat, wheels, events>>

NextWheel == FreeWheel \/ StartRepeat \/ RepeatWheel

InitWheel == Constructed(ZoomUnit)

SpecWheel == InitWheel /\ [][NextWheel]_vars /\ WF_vars(RepeatWheel)

----------------------------------------------------------------------------
(* SpecTrip: a few Ctrl+wheel events from every zoom that wheel events in  *)
(* one direction lead to (at the widget's origin they leave the offset at  *)
(* <<0, 0>>), with the cursor anywhere; wheelEvent never reads the         *)
(* widget's size.                                                          *)

MaxTicks == 17
MaxTrip == 2

TripStarts ==
    {Ticks(ZoomUnit, dir, n) : dir \in {"in", "out"}, n \in 0..MaxTicks}

TripPoints == {<<0, 0>>, <<10, 10>>, <<640, 480>>}

TripWheel ==
    /\ wheels < MaxTrip
    /\ \E dir \in {"in", "out"}, p \in TripPoints : wheelEvent(dir, p)
    /\ wheels' = wheels + 1
    /\ UNCHANGED <<repeat, events>>

NextTrip == TripWheel

InitTrip == \E z \in TripStarts : Constructed(z)

SpecTrip == InitTrip /\ [][NextTrip]_vars

----------------------------------------------------------------------------
(* SpecTier: load_image, with the passes it runs, at the zoom limits, at   *)
(* 1.0 and on and next to the tier limits 0.1, 0.5 and 5.                  *)

TierZooms ==
    {min_zoom, max_zoom, ZoomUnit} \cup
    {t + d : t \in {ZoomUnit \div 10, ZoomUnit \div 2, 5 * ZoomUnit},
             d \in {-1, 0, 1}}

TierImages == {<<2000, 10>>}

TierLoad == \E im \in TierImages : Event(load_image(im[1], im[2]))

NextTier == Step \/ Tick \/ TierLoad

InitTier == \E z \in TierZooms : Constructed(z)

SpecTier == InitTier /\ [][NextTier]_vars

----------------------------------------------------------------------------
(* SpecStroke: pen strokes at zoom 1.0 between the world points (10, 10)   *)
(* and (300, 10), which at zoom 1.0 and offset <<0, 0>> are the screen     *)
(* points of the same coordinates.                                         *)

StrokePoints == {<<10, 10>>, <<300, 10>>}

StrokePress == \E p \in StrokePoints : Event(mousePressEvent(p, FALSE))
StrokeMove == \E p \in StrokePoints : Event(mouseMoveEvent(p))
StrokeRelease == \E p \in StrokePoints : Event(mouseReleaseEvent(p))

NextStroke == Step \/ Tick \/ StrokePress \/ StrokeMove \/ StrokeRelease

InitStroke == Constructed(ZoomUnit)

SpecStroke == InitStroke /\ [][NextStroke]_vars

----------------------------------------------------------------------------
(* SpecSave: saving an empty store, a loaded one and a cleared one.        *)

Save == \E saved \in BOOLEAN : Event(save_image(saved))

NextSave ==
    \/ Step
    \/ Tick
    \/ Load
    \/ Clear
    \/ Save

InitSave == Constructed(ZoomUnit)

SpecSave == InitSave /\ [][NextSave]_vars

----------------------------------------------------------------------------
(* SpecZoom: a wheel event on a loaded store, from the zooms next to the   *)
(* capacity tiers' edges.                                                  *)

NextZoom ==
    \/ Step
    \/ Tick
    \/ TierLoad
    \/ Zoom

InitZoom == \E z \in TierZooms : Constructed(z)

SpecZoom == InitZoom /\ [][NextZoom]_vars

----------------------------------------------------------------------------
(* The tile store's properties.                                            *)

Stored == DOMAIN tiles
Timed == DictKeys(tile_access_times)
Capacity == get_max_tiles_for_zoom(zoom)
PassReturned == ret.call = "cleanup_unused_tiles"

\* C1: an eviction pass, whoever runs it (get_tile on the N-th creation or
\* load_image after a chunk), removes no key of tiles that get_visible_tiles
\* lists for the current zoom, offset and widget size.
C1_PassSparesVisible ==
    [][ret'.call = "cleanup_unused_tiles"
         => ((DOMAIN tiles) \ (DOMAIN tiles')) \cap Visible = {}]_vars

\* A pass has removed tiles and has stopped over capacity, with only visible
\* tiles left to remove.
C1_Witness ==
    /\ PassReturned
    /\ ret.evicted # {}
    /\ Stored \cap Visible # {}
    /\ Cardinality(Stored) > Capacity

\* C2: when a pass has returned, the store is within the capacity of the
\* current zoom or holds visible tiles only.
C2_PassEndsWithinCapacity ==
    PassReturned => (Cardinality(Stored) <= Capacity \/ Stored \subseteq Visible)

\* C3: a pass evicts in least-recently-used order: no tile outside the visible
\* set is evicted while one with an older last access survives the pass, and a
\* store over capacity that holds no visible tile is cut down to the capacity.
C3_LeastRecentlyUsed ==
    [][ret'.call = "cleanup_unused_tiles"
         => /\ \A e \in (DOMAIN tiles) \ (DOMAIN tiles') :
                  \A s \in (DOMAIN tiles') \ Visible :
                      accessed[s] >= accessed[e]
            /\ (Stored \cap Visible = {} /\ Cardinality(Stored) > Capacity)
                   => Cardinality(DOMAIN tiles') = Capacity]_vars

\* C4: whenever no get_tile call is under way, tiles and tile_access_times have
\* the same keys.
C4_SameKeys ==
    (pending = << >> \/ Head(pending).op # "resume") => Stored = Timed

\* C5: no key is ever bound to a second tile.
C5_OneTilePerKey == \A k \in DOMAIN created : created[k] <= 1

\* C5, amended: a key that stays in tiles stays bound to the same tile.
C5_StoredTileKept ==
    [][\A k \in (DOMAIN tiles) \cap (DOMAIN tiles') :
           tiles'[k].gen = tiles[k].gen]_vars

\* paintEvent's get_tile has found the tile a stroke drew on.
C5_Witness ==
    /\ ret.call = "get_tile" /\ ret.info = "hit"
    /\ handler = "paintEvent"
    /\ tiles[ret.key].dirty
    /\ created[ret.key] = 1

\* C6: when get_tile(key) has returned, key is in tiles and its timestamp is
\* recorded and is the latest of all.
C6_ReturnedKeyIsLatest ==
    ret.call = "get_tile"
        => /\ ret.key \in Stored
           /\ ret.key \in Timed
           /\ \A i \in DOMAIN tile_access_times :
                  tile_access_times[i][2] <= DictGet(tile_access_times, ret.key)

\* C7: when clear_canvas has returned, tiles and tile_access_times are empty.
C7_ClearEmptiesBoth ==
    ret.call = "clear_canvas" => (Stored = {} /\ Timed = {})

\* C8: when clear_canvas has returned, no text item is left and none is
\* selected.
C8_ClearDropsTexts ==
    ret.call = "clear_canvas" => (text_items = << >> /\ selected_text = NoText)

----------------------------------------------------------------------------
(* The zoom's properties.                                                  *)

\* C9: after any wheel events, min_zoom <= zoom <= max_zoom.
C9_ZoomWithinLimits == min_zoom <= zoom /\ zoom <= max_zoom

\* A zoom-in event has been clamped to max_zoom.
C9_Witness == zoom = max_zoom /\ ret.call = "wheelEvent" /\ ret.info = "in"

\* A step that is a Ctrl+wheel event in direction d.
WheelStep(d) ==
    \/ wheels' = wheels + 1 /\ ret'.info = d
    \/ repeat.dir = d /\ repeat' = repeat

\* C10: wheel events repeated in one direction lead to that direction's limit;
\* every event moves zoom towards the limit and never past it, and an event at
\* the limit changes neither zoom nor offset.
C10_RepeatedWheelReachesLimit ==
    /\ (repeat.dir = "in") ~> (zoom = max_zoom)
    /\ (repeat.dir = "out") ~> (zoom = min_zoom)
    /\ [][/\ WheelStep("in") =>
               /\ zoom' <= max_zoom
               /\ zoom < max_zoom => zoom' > zoom
               /\ zoom = max_zoom => (zoom' = zoom /\ offset' = offset)
          /\ WheelStep("out") =>
               /\ zoom' >= min_zoom
               /\ zoom > min_zoom => zoom' < zoom
               /\ zoom = min_zoom => (zoom' = zoom /\ offset' = offset)]_vars

\* Zooming out with the cursor away from the origin has reached min_zoom.
C10_Witness ==
    /\ repeat.dir = "out" /\ repeat.pos # <<0, 0>>
    /\ zoom = min_zoom
    /\ ret.call = "wheelEvent" /\ ret.info = "out"

\* C11: a Ctrl+wheel event leaves the world point under the cursor where it
\* was: map_to_image of the cursor is the same with the zoom and offset after
\* the event as with those before it, the clamp engaging or not.
C11_AnchorKept ==
    ret.call = "wheelEvent"
        => map_to_image(ret.key, zoom, offset)
               = map_to_image(ret.key, old_view.zoom, old_view.offset)

\* A zoom-in event has been clamped to max_zoom and has moved the offset.
C11_Witness ==
    /\ ret.call = "wheelEvent"
    /\ zoom = max_zoom /\ old_view.zoom < max_zoom
    /\ Scaled(old_view.zoom, "in") > max_zoom
    /\ offset # old_view.offset

\* A step that is the second of two Ctrl+wheel events in opposite directions
\* at one cursor position; old_view is then the view before the first.
Back ==
    /\ ret.call = "wheelEvent" /\ ret'.call = "wheelEvent"
    /\ wheels' = wheels + 1
    /\ ret'.key = ret.key /\ ret'.info # ret.info

\* Neither of the two events was clamped.
Unclamped ==
    /\ Clamped(Scaled(old_view.zoom, ret.info)) = Scaled(old_view.zoom, ret.info)
    /\ Clamped(Scaled(zoom, ret'.info)) = Scaled(zoom, ret'.info)

\* What "back at the original" is in 1/ZoomUnit: zoom within one unit of
\* the original, and the offset the original one when zoom is.
Returned ==
    /\ Abs(zoom' - old_view.zoom) <= 1
    /\ zoom' = old_view.zoom => offset' = old_view.offset

\* C12: a wheel tick in and one out at the same cursor position, or out and
\* then in, from any zoom, bring zoom and offset back to the original.
C12_TickAndBack == [][Back => Returned]_vars

\* C12, amended: they do when neither tick is clamped, and in-then-out
\* brings back the very zoom.
C12_UnclampedTickAndBack ==
    [][(Back /\ Unclamped)
          => (Returned /\ (ret.info = "in" => zoom' = old_view.zoom))]_vars

\* In and then out with the cursor off the origin: the first event moved the
\* offset, the second has brought it back.
C12_Witness ==
    /\ ret.call = "wheelEvent" /\ ret.info = "out" /\ ret.key # <<0, 0>>
    /\ wheels = 2
    /\ old_view.zoom > zoom /\ old_view.zoom < max_zoom
    /\ old_view.offset # <<0, 0>> /\ offset = <<0, 0>>

\* int(part / 10 of base_tile_limit): the whole number m with
\* m <= part * C / 10 < m + 1.
IntTenths(m, part) ==
    /\ 10 * m <= part * base_tile_limit
    /\ part * base_tile_limit < 10 * (m + 1)

\* C13: for every zoom within the limits get_max_tiles_for_zoom is 0.3 C
\* below 0.1, 0.6 C from 0.1 to below 0.5, 1.5 C above 5 and C otherwise
\* (the whole part of it, which is what a tile count compares against), and
\* a pass compares the tile count with the value at the current zoom: at or
\* under it the pass removes nothing, and it never evicts to below it.
C13_CapacityTiers ==
    /\ [](\A z \in min_zoom..max_zoom :
            LET m == get_max_tiles_for_zoom(z)
            IN  /\ z * 10 < ZoomUnit => IntTenths(m, 3)
                /\ (z * 10 >= ZoomUnit /\ z * 2 < ZoomUnit) => IntTenths(m, 6)
                /\ z > 5 * ZoomUnit => IntTenths(m, 15)
                /\ (z * 2 >= ZoomUnit /\ z <= 5 * ZoomUnit)
                       => m = base_tile_limit)
    /\ [][ret'.call = "cleanup_unused_tiles"
            => /\ Cardinality(DOMAIN tiles) <= Capacity => tiles' = tiles
               /\ tiles' # tiles => Cardinality(DOMAIN tiles') >= Capacity]_vars

\* At zoom 0.5, the lowest zoom of the tier of C, a pass has cut the store
\* down to C tiles.
C13_Witness ==
    /\ PassReturned /\ ret.evicted # {}
    /\ zoom * 2 = ZoomUnit
    /\ Cardinality(Stored) = base_tile_limit

----------------------------------------------------------------------------
(* The drawing tools' properties.                                          *)

Dirty == {k \in DOMAIN tiles : tiles[k].dirty}

\* The pen went down at (10, 10) on an empty store and has moved to
\* (300, 10), and the stroke between the two is drawn.
StrokeDrawn ==
    /\ events = 2 /\ handler = "idle"
    /\ tool = "pen" /\ drawing
    /\ start_point = <<10, 10>> /\ last_point = <<300, 10>>

\* C14: a pen stroke from (10, 10) to (300, 10) on an empty store flags dirty
\* the tiles (0, 0) and (1, 0), which the segment crosses, and no other.
C14_StrokeDirtiesItsTiles ==
    StrokeDrawn => Dirty = {<<0, 0>>, <<1, 0>>}

----------------------------------------------------------------------------
(* The text layer's gestures, under SpecText.                              *)

\* atan2(dy, dx) of two <<dy, dx>> pairs is the same angle; atan2(0, 0) = 0
\* is the angle of <<0, 1>>.
Dir(v) == IF v = <<0, 0>> THEN <<0, 1>> ELSE v

SameAngle(u, v) ==
    LET a == Dir(u)
        b == Dir(v)
    IN  /\ a[1] * b[2] - a[2] * b[1] = 0
        /\ a[1] * b[1] + a[2] * b[2] > 0

Moved == ret.call = "mouseMoveEvent" /\ handler = "idle"

\* C15: after a pointer move, an item that is being dragged has its anchor
\* at the position it had at pointer-down plus the pointer's displacement
\* since then, and its rotation and scale are what they were.
C15_DragMovesAnchor ==
    Moved =>
        \A i \in DOMAIN items :
            items[i].dragging =>
                /\ items[i].pos[1] = items[i].original_pos[1]
                                        + (ret.key[1] - items[i].drag_start[1])
                /\ items[i].pos[2] = items[i].original_pos[2]
                                        + (ret.key[2] - items[i].drag_start[2])
                /\ items[i].rotation = 0
                /\ items[i].scale = 1

\* C16: after a pointer move while rotating, the selected item's rotation is
\* initial_rotation plus the pointer's angle about the anchor minus
\* rotation_start; so it differs from initial_rotation whenever the pointer's
\* angle differs from rotation_start.
C16_RotationFollowsPointer ==
    (Moved /\ rotating /\ selected_text # NoText) =>
        LET it == items[selected_text]
            cur == <<ret.key[2] - it.pos[2], ret.key[1] - it.pos[1]>>
        IN  (it.rotation = capture.initial_rotation)
                <=> SameAngle(cur, capture.rotation_start)

\* C17: after a left pointer-up no gesture is active: drawing, rotating and
\* scaling are false and no text item has dragging set.
C17_ReleaseEndsGestures ==
    (ret.call = "mouseReleaseEvent" /\ handler = "idle") =>
        /\ ~drawing
        /\ ~rotating
        /\ ~scaling
        /\ \A i \in DOMAIN items : ~items[i].dragging


Selected == {i \in DOMAIN items : items[i].selected}

\* C18: at most one TextItem has selected set and it is the one selected_text
\* refers to; and when a pointer-down makes another item the selected one,
\* the item selected before it has selected false afterwards.
C18_OneSelected ==
    /\ [](Selected = IF selected_text = NoText THEN {} ELSE {selected_text})
    /\ [][(/\ ret'.call = "mousePressEvent"
           /\ selected_text' # NoText
           /\ selected_text' # selected_text)
          => \A i \in DOMAIN items : i # selected_text' => ~items'[i].selected]_vars

\* A pointer-down has created and selected a second item, and the item that
\* was selected earlier is not.
C18_Witness ==
    /\ ret.call = "mousePressEvent" /\ ret.info = "accepted"
    /\ selected_text = 2
    /\ 1 \in DOMAIN items /\ ~items[1].selected


NoGesture ==
    /\ ~drawing /\ ~rotating /\ ~scaling
    /\ \A i \in DOMAIN items : ~items[i].dragging

\* pt lies inside no item's bounds and on no handle of the selected item.
OffItems(pt) ==
    /\ ClickedText(pt) = NoText
    /\ selected_text # NoText =>
           LET h == get_text_handles(items[selected_text], zoom)
           IN  ~is_near_point(pt, h[1], zoom) /\ ~is_near_point(pt, h[2], zoom)

\* C19: with the text tool and no gesture in progress, a left pointer-down
\* off every item and handle, with both dialogs accepted, adds one TextItem
\* anchored at the pointer's position and makes it the selected item,
\* whether or not an item was selected before.
C19_TextPressCreates ==
    [][(/\ ret'.call = "mousePressEvent" /\ ret'.info = "accepted"
        /\ tool = "text" /\ NoGesture /\ OffItems(ret'.key))
       => /\ DOMAIN items' = DOMAIN items \cup {selected_text'}
          /\ selected_text' \notin DOMAIN items
          /\ items'[selected_text'].pos = ret'.key
          /\ items'[selected_text'].selected]_vars


----------------------------------------------------------------------------
(* Saving, under SpecSave.                                                 *)

SaveReturned == ret.call = "save_image"

\* C20 as stated: save_image returns False exactly when no tiles are stored.
C20_FalseExactlyWhenEmpty ==
    SaveReturned => (ret.info = "False" <=> DOMAIN tiles = {})

\* C20: save_image returns True or False and never raises; with no tiles
\* stored it returns False; and it returns without having reached
\* QImage.save exactly when no tiles are stored.
C20_EmptySaveFails ==
    SaveReturned =>
        /\ ret.info \in {"True", "False"}
        /\ DOMAIN tiles = {} => ret.info = "False"
        /\ ret.key = None <=> DOMAIN tiles = {}

\* save_image has returned False for a store emptied by clear_canvas after
\* load_image had filled it.
C20_Witness ==
    /\ SaveReturned /\ ret.info = "False" /\ ret.key = None
    /\ DOMAIN tiles = {} /\ created # << >>


\* C21: a save_image call, returning True or False, leaves tiles (keys,
\* contents, dirty flags), tile_access_times, cleanup_counter, zoom, offset
\* and the text items as they were.
C21_SaveChangesNothing ==
    [][ret'.call = "save_image" =>
          UNCHANGED <<tiles, tile_access_times, cleanup_counter, zoom, offset,
                      items, text_items, selected_text>>]_vars

\* A later moment has passed since the stored tiles were stamped, and
\* save_image has written them.
C21_Witness ==
    /\ SaveReturned /\ ret.info = "True"
    /\ DOMAIN tiles # {}
    /\ \E i \in DOMAIN tile_access_times :
           /\ tile_access_times[i][1] \in DOMAIN tiles
           /\ tile_access_times[i][2] < now


----------------------------------------------------------------------------
(* Loading, under Spec.                                                    *)

\* The keys of the tile_size-aligned chunks of a w x h image.
ImageKeys(w, h) ==
    {<<tx, ty>> : tx \in 0..(CeilDiv(w, tile_size) - 1),
                  ty \in 0..(CeilDiv(h, tile_size) - 1)}

LoadReturns == handler = "load_image" /\ handler' = "idle"

\* C22: when load_image of a w x h image returns, tiles holds a tile with
\* the image drawn into it for every key (tx, ty) with
\* 0 <= tx < ceil(w / tile_size) and 0 <= ty < ceil(h / tile_size), and no
\* other key.
C22_LoadPopulatesImageKeys ==
    [][LoadReturns =>
          /\ DOMAIN tiles' = ImageKeys(arg[1], arg[2])
          /\ \A k \in DOMAIN tiles' : tiles'[k].painted]_vars


----------------------------------------------------------------------------
(* What triggers an eviction pass.                                         *)

\* A step that ends a get_tile call: the call leaves the handler's list.
GetTileReturns == ret'.call = "get_tile" /\ pending' # pending

\* The pass that get_tile runs.
CounterPass ==
    /\ ret'.call = "cleanup_unused_tiles" /\ ret'.info = "get_tile"
    /\ pending' # pending

\* C23: get_tile runs an eviction pass on every cleanup_threshold-th tile
\* creation since its previous pass and on no other call: a hit leaves
\* cleanup_counter alone and runs no pass, a creation that is not the
\* cleanup_threshold-th adds one to it and runs no pass, the
\* cleanup_threshold-th runs the pass and leaves it 0, and when get_tile
\* returns it is in 0..cleanup_threshold - 1.
C23_PassEveryNthCreation ==
    /\ [](ret.call = "get_tile" =>
              cleanup_counter \in 0..(cleanup_threshold - 1))
    /\ [][(GetTileReturns /\ ret'.info = "hit") =>
              /\ ret.call # "cleanup_unused_tiles" \/ ret.info # "get_tile"
              /\ cleanup_counter' = cleanup_counter]_vars
    /\ [][(GetTileReturns /\ ret'.info = "created") =>
              IF ret.call = "cleanup_unused_tiles" /\ ret.info = "get_tile"
              THEN cleanup_counter = cleanup_threshold /\ cleanup_counter' = 0
              ELSE /\ cleanup_counter + 1 < cleanup_threshold
                   /\ cleanup_counter' = cleanup_counter + 1]_vars
    /\ [][CounterPass =>
              /\ Head(pending).key \notin DOMAIN tiles
              /\ cleanup_counter = cleanup_threshold - 1
              /\ cleanup_counter' = cleanup_threshold]_vars

\* get_tile has run its pass for the second time, cleanup_threshold
\* creations after the first.
C23_Witness ==
    /\ ret.call = "get_tile" /\ ret.info = "created"
    /\ cleanup_counter = 0
    /\ Cardinality({k \in DOMAIN created : created[k] > 0})
           >= 2 * cleanup_threshold


ZoomChanged == ret.call = "wheelEvent" /\ zoom # old_view.zoom

\* C24: when a wheel event that changed zoom has returned, the store is
\* within the capacity of the new zoom, or holds visible tiles only.  Stated
\* for a store that was within the capacity of the zoom before the event,
\* so that only the pass of this event can have been missing.
C24_ZoomChangeEvicts ==
    (ZoomChanged
        /\ Cardinality(Stored) <= get_max_tiles_for_zoom(old_view.zoom)) =>
        \/ Cardinality(Stored) <= Capacity
        \/ Stored \subseteq Visible


----------------------------------------------------------------------------
(* The zoom step and the visible rectangle, under SpecTrip.                *)

\* zoom > 5.0, the outer tier in which zoom's resolution of 1/ZoomUnit
\* tells a multiplier of 1.2 from a smaller one (below 0.1 a step is one or
\* two units whatever the multiplier).
OuterTier(z) == z > 5 * ZoomUnit

\* The last event was a wheel event in, from zoom z, that the limits did
\* not cut.
SteppedIn(z) ==
    /\ ret.call = "wheelEvent" /\ ret.info = "in"
    /\ old_view.zoom = z
    /\ zoom < max_zoom

\* C25: the multiplier of a wheel event in taken above 5.0 is smaller than
\* the multiplier taken at 1.0, by more than the rounding of zoom to
\* 1/ZoomUnit can account for.
C25_SmallerStepInOuterTiers ==
    \A z \in min_zoom..max_zoom :
        (SteppedIn(z) /\ OuterTier(z)) =>
            zoom * ZoomUnit + ZoomUnit < z * Scaled(ZoomUnit, "in")


\* The padding the viewport's tile rectangle is widened by.
Padding(z) ==
    IF 10 * z < ZoomUnit THEN 0 ELSE IF 2 * z < ZoomUnit THEN 1 ELSE 2

\* The tile rectangle of the viewport in world space, widened by pad tiles.
ViewportKeys(z, off, pad) ==
    LET left == 0 - off[1]
        top == 0 - off[2]
        right == left + Over(WidgetWidth, z)
        bottom == top + Over(WidgetHeight, z)
    IN  {<<tx, ty>> :
            tx \in ((left \div tile_size) - pad)..((right \div tile_size) + pad),
            ty \in ((top \div tile_size) - pad)..((bottom \div tile_size) + pad)}

\* C26: get_visible_tiles returns the viewport's tile rectangle widened by
\* 0 tiles when zoom < 0.1, by 1 tile when 0.1 <= zoom < 0.5 and by 2 tiles
\* otherwise.
C26_PaddingByZoom ==
    Visible = ViewportKeys(zoom, offset, Padding(zoom))


\* The positions inside the widget.
WidgetPoints == (0..(WidgetWidth - 1)) \X (0..(WidgetHeight - 1))

----------------------------------------------------------------------------
(* Tile buffers.                                                           *)

\* C28: every stored tile whose pixmap has been drawn into since it was
\* created, by a stroke, a shape commit or load_image, has dirty set.
C28_PaintedIsDirty ==
    \A k \in DOMAIN tiles : tiles[k].painted => tiles[k].dirty


\* A stroke or a shape commit is about to draw the world point arg into the
\* tile its next get_tile call returns.
Drawing ==
    /\ handler \in {"mouseMoveEvent", "mouseReleaseEvent"}
    /\ pending # << >>

\* C29: the point of a tile's pixmap at which the shape commit draws a world
\* point is the point at which a stroke draws it.
C29_SameLocalPoint ==
    Drawing =>
        tile_end(arg, Head(pending).key) = local_end(arg, Head(pending).key)

====
